---- MODULE Spec2Model ----
(***************************************************************************)
(* Booking repository (src/src/services/bookingService.ts) of the          *)
(* date-slot-buddy calendar: the date codec, the availability check, the   *)
(* create / update / delete / fetch operations against the bookings table, *)
(* and the reminder store kept in IndexedDB.                               *)
(*                                                                         *)
(* A JavaScript Date is modelled by its local calendar day and its local   *)
(* time of day; a stored string by its shape and the day and time written  *)
(* in it.  A date slot (calendar date, startTime) of a draft is the Date   *)
(* value the service receives in bookingData.dates.                        *)
(***************************************************************************)
EXTENDS Integers, Sequences, FiniteSets, TLC

\* ---------------------------------------------------------------- bounds
MaxDay == 2
MaxSlots == 2
MaxId == 2
MaxNow == 2
MaxCalendarDay == 3

\* subDays(bookedDate, 15)
NotificationLeadDays == 15

\* calendar days that can be booked; all later than the reminder lead
Days == (NotificationLeadDays + 1)..(NotificationLeadDays + MaxDay)

\* times of day, HH:mm
Times == {"00:00", "09:15"}

\* ids the store assigns on insert, in creation order
Ids == 1..MaxId

\* the excludeBookingId of a create (undefined)
NoId == 0

\* ------------------------------------------------------- Date and strings
LocalDate(d, t) == [valid |-> TRUE, day |-> d, time |-> t]

InvalidDate == [valid |-> FALSE, day |-> 0, time |-> "00:00"]

DateValues == {LocalDate(d, t) : d \in Days, t \in Times}

DateOnlyShape == "YYYY-MM-DD"

CanonicalShape == "YYYY-MM-DDTHH:mm:ss+05:30"

NaNShape == "NaN-NaN-NaN"

Token(s, d, t) == [shape |-> s, day |-> d, time |-> t]

\* formatDateToLocal: `${year}-${month}-${day}` of the local date
formatDateToLocal(date) ==
  IF date.valid THEN Token(DateOnlyShape, date.day, "00:00")
                ELSE Token(NaNShape, 0, "00:00")

\* new Date(date + 'T00:00:00'): the string read as a local date-time; a
\* string that already carries a time part is no date-time string any more
parseStoredDate(token) ==
  IF token.shape = DateOnlyShape THEN LocalDate(token.day, "00:00")
                                 ELSE InvalidDate


SeqRange(s) == {s[i] : i \in DOMAIN s}

\* ----------------------------------------------------------------- drafts
\* the field values a form submits; two customers that differ in every field
Customers ==
  { [fullName |-> "Asha", phoneNumber |-> "9876543210", price |-> 1500,
     otherDetails |-> ""],
    [fullName |-> "Ravi", phoneNumber |-> "9123456789", price |-> 2500,
     otherDetails |-> "hall"] }

\* ascending lists of distinct calendar days, each with a time of day
RECURSIVE DateLists(_)
DateLists(n) ==
  IF n = 0 THEN {<<>>}
  ELSE LET shorter == DateLists(n - 1)
       IN shorter \cup
          { Append(l, x) : l \in {s \in shorter : Len(s) = n - 1},
                           x \in DateValues }

Ascending(l) == \A i \in 1..(Len(l) - 1) : l[i].day < l[i + 1].day

DraftDates == {l \in DateLists(MaxSlots) : Len(l) >= 1 /\ Ascending(l)}

Draft(l, c) ==
  [dates |-> l, fullName |-> c.fullName, phoneNumber |-> c.phoneNumber,
   price |-> c.price, otherDetails |-> c.otherDetails]

Drafts == {Draft(l, c) : l \in DraftDates, c \in Customers}

NoDraft ==
  [dates |-> <<>>, fullName |-> "", phoneNumber |-> "", price |-> 0,
   otherDetails |-> ""]

\* ------------------------------------------------------------------ state
VARIABLES
  store,          \* the bookings table: id -> row
  nextId,         \* the id the next insert is given
  lastResult,     \* the last service call: its arguments, outcome, return
  datesColumn,    \* the type of the dates column: DATE[] until migrated
  notifications,  \* the IndexedDB object store 'notifications'
  permission,     \* Notification.permission
  now,            \* the clock, in half days since the local midnight of day 0
  storeCalls,     \* the supabase calls the last service call awaited, in order
  component,      \* which BookingCalendar is mounted, "none" before the mount
  selectedDates,  \* useState<Date[]>([])
  bookings,       \* useState<BookingData[]>([])
  showBookingForm,
  showBookingDetails,
  showDateBookingsDialog,
  selectedDateForDialog,
  selectedBooking,
  editingBooking,
  alertMessage,   \* the text of the last alert(), "" when the handler raised none
  lastEvent,      \* the last handler of the page and the state it found
  lastSchedule,   \* the last call of scheduleBookingNotifications and its effect
  shownNotifications,  \* the notification ids handed to showNotification, in order
  lastSweep,      \* the last run of a due check and the kinds of reminder it found
  skipped,        \* the reminders scheduleNotification logged as skipped
  inFlight,       \* per client instance, the create or update it is awaiting
  checking        \* per due-check runner, the ids it showed and has yet to delete

\* the state of the clients: the BookingCalendar component of the page, and
\* the service calls that client instances are awaiting
calendarVars ==
  <<component, selectedDates, bookings, showBookingForm, showBookingDetails,
    showDateBookingsDialog, selectedDateForDialog, selectedBooking,
    editingBooking, alertMessage, lastEvent, inFlight>>

\* what the due checks and the skip of scheduleNotification write
dueVars == <<shownNotifications, lastSweep, skipped, checking>>

vars ==
  <<store, nextId, lastResult, datesColumn, notifications, permission, now,
    storeCalls, calendarVars, lastSchedule, dueVars>>

EmptyStore == [i \in {} |-> NoDraft]

\* null, for a BookingData | null and for a Date | null
NoBooking ==
  [id |-> NoId, dates |-> <<>>, fullName |-> "", phoneNumber |-> "",
   price |-> 0, otherDetails |-> ""]

NoDate == [valid |-> FALSE, day |-> -1, time |-> "00:00"]

NoSchedule ==
  [booking |-> NoBooking, forceReschedule |-> FALSE, permission |-> "default",
   now |-> 0, alreadyScheduled |-> FALSE, after |-> {}]

NoSweep ==
  [runner |-> "none", delivers |-> FALSE, found |-> {}]

\* the client instances that share the bookings table
Clients == {"first", "second"}

\* the two places a due-check runs: the page and the service worker
Runners == {"page", "worker"}

NotChecking == [running |-> FALSE, ids |-> {}]

NoCall ==
  [phase |-> "idle", op |-> "none", id |-> NoId, draft |-> NoDraft,
   isBooked |-> FALSE, before |-> EmptyStore, outcome |-> "none"]

NoEvent ==
  [handler |-> "none", date |-> NoDate, selectedDates |-> <<>>,
   bookings |-> <<>>, editingBooking |-> NoBooking]

NoResult ==
  [op |-> "none", id |-> NoId, draft |-> NoDraft, outcome |-> "none",
   returned |-> <<>>, before |-> EmptyStore]

Init ==
  /\ store = EmptyStore
  /\ nextId = 1
  /\ lastResult = NoResult
  /\ datesColumn = "DATE[]"
  /\ notifications = {}
  /\ permission = "default"
  /\ now = 0
  /\ storeCalls = <<>>
  /\ component = "none"
  /\ selectedDates = <<>>
  /\ bookings = <<>>
  /\ showBookingForm = FALSE
  /\ showBookingDetails = FALSE
  /\ showDateBookingsDialog = FALSE
  /\ selectedDateForDialog = NoDate
  /\ selectedBooking = NoBooking
  /\ editingBooking = NoBooking
  /\ alertMessage = ""
  /\ lastEvent = NoEvent
  /\ lastSchedule = NoSchedule
  /\ shownNotifications = <<>>
  /\ lastSweep = NoSweep
  /\ skipped = {}
  /\ inFlight = [c \in Clients |-> NoCall]
  /\ checking = [r \in Runners |-> NotChecking]

\* ------------------------------------------------------ booking repository
\* the row -> BookingData mapping of fetchBookings, createBooking, updateBooking
toBookingData(id, row) ==
  [id |-> id,
   dates |-> [i \in DOMAIN row.dates |-> parseStoredDate(row.dates[i])],
   fullName |-> row.full_name,
   phoneNumber |-> row.phone,
   price |-> row.price,
   otherDetails |-> row.details]

\* the column values of insert({...}) and update({...})
toRow(draft, stamp) ==
  [dates |-> [i \in DOMAIN draft.dates |-> formatDateToLocal(draft.dates[i])],
   full_name |-> draft.fullName,
   phone |-> draft.phoneNumber,
   price |-> draft.price,
   details |-> draft.otherDetails,
   updated_at |-> stamp]

\* .overlaps('dates', dateStrings): the arrays share an element
overlaps(rowDates, dateStrings) ==
  SeqRange(rowDates) \cap SeqRange(dateStrings) # {}

\* a check that looks at the first proposed date only
checkFirstDateOnly(dates, excludeBookingId, st) ==
  LET dateStrings == <<formatDateToLocal(dates[1])>>
      data == {id \in DOMAIN st :
                 /\ overlaps(st[id].dates, dateStrings)
                 /\ (excludeBookingId # NoId => id # excludeBookingId)}
  IN data # {}

\* checkDateAvailability: TRUE when some row, other than the excluded one,
\* overlaps the formatted dates
checkDateAvailability(dates, excludeBookingId, st) ==
  LET dateStrings == [i \in DOMAIN dates |-> formatDateToLocal(dates[i])]
      data == {id \in DOMAIN st :
                 /\ overlaps(st[id].dates, dateStrings)
                 /\ (excludeBookingId # NoId => id # excludeBookingId)}
  IN data # {}

\* rows newest first (.order('created_at', { ascending: false }))
RECURSIVE NewestFirst(_, _)
NewestFirst(st, ids) ==
  IF ids = {} THEN <<>>
  ELSE LET top == CHOOSE i \in ids : \A j \in ids : j <= i
       IN <<toBookingData(top, st[top])>> \o NewestFirst(st, ids \ {top})

Result(op, id, draft, outcome, returned, before) ==
  [op |-> op, id |-> id, draft |-> draft, outcome |-> outcome,
   returned |-> returned, before |-> before]

\* one awaited supabase call and whether it came back with an error
StoreCall(call, failed) == [call |-> call, failed |-> failed]

\* fetchBookings
FetchBookings(fault) ==
  /\ storeCalls' = <<StoreCall("select", fault = "read")>>
  /\ lastResult' =
       IF fault = "read"
       THEN Result("fetch", NoId, NoDraft, "StoreUnavailable", <<>>, store)
       ELSE Result("fetch", NoId, NoDraft, "ok",
                   NewestFirst(store, DOMAIN store), store)
  /\ UNCHANGED <<store, nextId, datesColumn, notifications, lastSchedule,
                 dueVars, permission, now>>

\* a create that takes a failed availability read for "no rows"
CreateIgnoresReadError(draft, fault) ==
  /\ nextId <= MaxId
  /\ IF fault # "read" /\ checkDateAvailability(draft.dates, NoId, store)
     THEN /\ lastResult' = Result("create", NoId, draft, "SlotConflict",
                                  <<>>, store)
          /\ storeCalls' = <<StoreCall("select", FALSE)>>
          /\ UNCHANGED <<store, nextId>>
     ELSE LET row == toRow(draft, now)
          IN /\ store' = [i \in DOMAIN store \cup {nextId} |->
                            IF i = nextId THEN row ELSE store[i]]
             /\ nextId' = nextId + 1
             /\ lastResult' = Result("create", nextId, draft, "ok",
                                     <<toBookingData(nextId, row)>>, store)
             /\ storeCalls' = <<StoreCall("select", fault = "read"),
                                StoreCall("insert", FALSE)>>
  /\ UNCHANGED <<datesColumn, notifications, lastSchedule,
                 dueVars, permission, now>>

\* createBooking
CreateBooking(draft, fault) ==
  /\ nextId <= MaxId
  /\ IF fault = "read"
     THEN /\ lastResult' = Result("create", NoId, draft, "StoreUnavailable",
                                  <<>>, store)
          /\ storeCalls' = <<StoreCall("select", TRUE)>>
          /\ UNCHANGED <<store, nextId>>
     ELSE IF checkDateAvailability(draft.dates, NoId, store)
     THEN /\ lastResult' = Result("create", NoId, draft, "SlotConflict",
                                  <<>>, store)
          /\ storeCalls' = <<StoreCall("select", FALSE)>>
          /\ UNCHANGED <<store, nextId>>
     ELSE IF fault = "write"
     THEN /\ lastResult' = Result("create", NoId, draft, "StoreUnavailable",
                                  <<>>, store)
          /\ storeCalls' = <<StoreCall("select", FALSE), StoreCall("insert", TRUE)>>
          /\ UNCHANGED <<store, nextId>>
     ELSE LET row == toRow(draft, now)
          IN /\ store' = [i \in DOMAIN store \cup {nextId} |->
                            IF i = nextId THEN row ELSE store[i]]
             /\ nextId' = nextId + 1
             /\ lastResult' = Result("create", nextId, draft, "ok",
                                     <<toBookingData(nextId, row)>>, store)
             /\ storeCalls' = <<StoreCall("select", FALSE), StoreCall("insert", FALSE)>>
  /\ UNCHANGED <<datesColumn, notifications, lastSchedule,
                 dueVars, permission, now>>

\* ---------------------------------------------- two client instances
\* the first await of createBooking and updateBooking: the availability read
ReadAvailability(c, op, id, draft) ==
  /\ inFlight[c].phase # "read"
  /\ inFlight' =
       [inFlight EXCEPT ![c] =
          [phase |-> "read", op |-> op, id |-> id, draft |-> draft,
           isBooked |-> checkDateAvailability(draft.dates, id, store),
           before |-> store, outcome |-> "none"]]
  /\ UNCHANGED <<store, nextId, lastResult, datesColumn, notifications,
                 lastSchedule, dueVars, permission, now, storeCalls>>

\* the rest of the call, run with an availability answer: the throw on a
\* booked date, else the second await, the insert or the update
WriteBackWith(c, isBooked) ==
  LET call == inFlight[c]
      row == toRow(call.draft, now)
      target == IF call.op = "create" THEN nextId ELSE call.id
      outcome == IF isBooked THEN "SlotConflict"
                 ELSE IF call.op = "update" /\ call.id \notin DOMAIN store
                 THEN "NotFound" ELSE "ok"
  IN /\ call.phase = "read"
     /\ (call.op = "create" /\ ~isBooked) => nextId <= MaxId
     /\ store' = IF outcome = "ok"
                 THEN [i \in DOMAIN store \cup {target} |->
                         IF i = target THEN row ELSE store[i]]
                 ELSE store
     /\ nextId' = IF outcome = "ok" /\ call.op = "create" THEN nextId + 1 ELSE nextId
     /\ lastResult' =
          Result(call.op, IF outcome = "ok" THEN target ELSE call.id, call.draft,
                 outcome,
                 IF outcome = "ok" THEN <<toBookingData(target, row)>> ELSE <<>>,
                 store)
     /\ storeCalls' =
          IF isBooked THEN <<StoreCall("select", FALSE)>>
          ELSE <<StoreCall("select", FALSE),
                 StoreCall(IF call.op = "create" THEN "insert" ELSE "update",
                           outcome # "ok")>>
     /\ inFlight' =
          [inFlight EXCEPT ![c] = [NoCall EXCEPT !.phase = "done", !.outcome = outcome]]
     /\ UNCHANGED <<datesColumn, notifications, lastSchedule, dueVars,
                    permission, now>>

\* a write that asks for the availability again in the same step
WriteBackRechecked(c) ==
  WriteBackWith(c, checkDateAvailability(inFlight[c].draft.dates, inFlight[c].id, store))

\* the call goes on with the answer its read brought back
WriteBack(c) == WriteBackWith(c, inFlight[c].isBooked)

\* an update that writes the row before it looks at the availability answer
UpdateWritesBeforeCheck(id, draft, fault) ==
  /\ storeCalls' = <<StoreCall("update", FALSE), StoreCall("select", FALSE)>>
  /\ IF id \notin DOMAIN store
     THEN /\ lastResult' = Result("update", id, draft, "NotFound", <<>>, store)
          /\ UNCHANGED store
     ELSE /\ store' = [store EXCEPT ![id] = toRow(draft, now)]
          /\ lastResult' =
               Result("update", id, draft,
                      IF checkDateAvailability(draft.dates, id, store)
                      THEN "SlotConflict" ELSE "ok",
                      <<>>, store)
  /\ UNCHANGED <<nextId, datesColumn, notifications, lastSchedule,
                 dueVars, permission, now>>

\* updateBooking
UpdateBooking(id, draft, fault) ==
  /\ IF fault = "read"
     THEN /\ lastResult' = Result("update", id, draft, "StoreUnavailable",
                                  <<>>, store)
          /\ storeCalls' = <<StoreCall("select", TRUE)>>
          /\ UNCHANGED store
     ELSE IF checkDateAvailability(draft.dates, id, store)
     THEN /\ lastResult' = Result("update", id, draft, "SlotConflict",
                                  <<>>, store)
          /\ storeCalls' = <<StoreCall("select", FALSE)>>
          /\ UNCHANGED store
     ELSE IF fault = "write"
     THEN /\ lastResult' = Result("update", id, draft, "StoreUnavailable",
                                  <<>>, store)
          /\ storeCalls' = <<StoreCall("select", FALSE), StoreCall("update", TRUE)>>
          /\ UNCHANGED store
     ELSE IF id \notin DOMAIN store
     THEN \* .single() on an update that matched no row
          /\ lastResult' = Result("update", id, draft, "NotFound",
                                  <<>>, store)
          /\ storeCalls' = <<StoreCall("select", FALSE), StoreCall("update", TRUE)>>
          /\ UNCHANGED store
     ELSE LET row == toRow(draft, now)
          IN /\ store' = [store EXCEPT ![id] = row]
             /\ lastResult' = Result("update", id, draft, "ok",
                                     <<toBookingData(id, row)>>, store)
             /\ storeCalls' = <<StoreCall("select", FALSE), StoreCall("update", FALSE)>>
  /\ UNCHANGED <<nextId, datesColumn, notifications, lastSchedule,
                 dueVars, permission, now>>

\* deleteBooking
DeleteBooking(id, fault) ==
  /\ storeCalls' = <<StoreCall("delete", fault = "write")>>
  /\ IF fault = "write"
     THEN /\ lastResult' = Result("delete", id, NoDraft, "StoreUnavailable",
                                  <<>>, store)
          /\ UNCHANGED store
     ELSE /\ store' = [i \in DOMAIN store \ {id} |-> store[i]]
          /\ lastResult' = Result("delete", id, NoDraft, "ok", <<>>, store)
  /\ UNCHANGED <<nextId, datesColumn, notifications, lastSchedule,
                 dueVars, permission, now>>

\* MIGRATE_DATES_TO_TEXT.sql, step 2: every date of every row becomes
\* date_value::text || 'T00:00:00+05:30', and the column becomes TEXT[]
migratedToken(token) == Token(CanonicalShape, token.day, "00:00")

MigrateDatesToText ==
  /\ datesColumn = "DATE[]"
  /\ datesColumn' = "TEXT[]"
  /\ store' = [i \in DOMAIN store |->
                 [store[i] EXCEPT !.dates = [j \in DOMAIN @ |-> migratedToken(@[j])]]]
  /\ UNCHANGED <<nextId, lastResult, notifications, lastSchedule,
                 dueVars, permission, now, storeCalls,
                 calendarVars>>

\* ------------------------------------------------------------- reminders
\* Date.getTime() on the model's clock: two ticks a day, local midnight first
getTime(date) == 2 * date.day + (IF date.time = "00:00" THEN 0 ELSE 1)

\* a reminder time one day nearer to the booked date
calculateNotificationDateOneDayLate(bookedDate) ==
  [bookedDate EXCEPT !.day = @ - NotificationLeadDays + 1]

\* calculateNotificationDate: subDays(bookedDate, 15)
calculateNotificationDate(bookedDate) ==
  [bookedDate EXCEPT !.day = @ - NotificationLeadDays]

\* a gate that lets every caller through
permissionNotAsked(perm) == TRUE

\* hasNotificationPermission
hasNotificationPermission(perm) == perm = "granted"

\* a record keyed by the booking alone
ScheduledNotificationKeyedByBooking(booking, targetDate) ==
  [id |-> <<booking.id, 0>>,
   bookingId |-> booking.id,
   notificationDate |-> getTime(calculateNotificationDate(targetDate)),
   bookedDate |-> getTime(targetDate),
   fullName |-> booking.fullName,
   phoneNumber |-> booking.phoneNumber,
   price |-> booking.price,
   otherDetails |-> booking.otherDetails,
   allDateSlots |-> booking.dates]

\* the record scheduleNotification hands to storeNotification; the key is
\* `${booking.id}-${format(targetDate, 'yyyy-MM-dd')}`
ScheduledNotification(booking, targetDate) ==
  [id |-> <<booking.id, targetDate.day>>,
   bookingId |-> booking.id,
   notificationDate |-> getTime(calculateNotificationDate(targetDate)),
   bookedDate |-> getTime(targetDate),
   fullName |-> booking.fullName,
   phoneNumber |-> booking.phoneNumber,
   price |-> booking.price,
   otherDetails |-> booking.otherDetails,
   allDateSlots |-> booking.dates]

\* storeNotification: store.put(notification), keyed by id
storeNotification(notifs, n) == {m \in notifs : m.id # n.id} \cup {n}

\* a scheduleNotification without the skip of a past reminder time
scheduleNotificationOfPastDate(notifs, booking, targetDate, clock) ==
  IF ~targetDate.valid THEN notifs
  ELSE storeNotification(notifs, ScheduledNotification(booking, targetDate))

\* scheduleNotification: nothing is stored for a reminder time that is not in
\* the future, nor for an Invalid Date (format() throws, the caller logs it)
scheduleNotification(notifs, booking, targetDate, clock) ==
  IF ~targetDate.valid THEN notifs
  ELSE IF getTime(calculateNotificationDate(targetDate)) <= clock THEN notifs
  ELSE storeNotification(notifs, ScheduledNotification(booking, targetDate))

\* removeNotificationsForBooking: delete every record of the bookingId index
removeNotificationsForBooking(notifs, bookingId) ==
  {n \in notifs : n.bookingId # bookingId}

\* hasNotificationsScheduled
hasNotificationsScheduled(notifs, bookingId) ==
  \E n \in notifs : n.bookingId = bookingId

\* the for-loop of scheduleBookingNotifications over the booking's slots
RECURSIVE scheduleSlots(_, _, _, _)
scheduleSlots(notifs, booking, i, clock) ==
  IF i > Len(booking.dates) THEN notifs
  ELSE scheduleSlots(scheduleNotification(notifs, booking, booking.dates[i], clock),
                     booking, i + 1, clock)

\* the ids of the slots scheduleNotification skips: its reminder time is not
\* in the future
skippedSlots(booking, clock) ==
  {[id |-> <<booking.id, booking.dates[i].day>>,
    notificationDate |-> getTime(calculateNotificationDate(booking.dates[i])),
    bookedDate |-> getTime(booking.dates[i])] : i \in
     {j \in DOMAIN booking.dates :
        /\ booking.dates[j].valid
        /\ getTime(calculateNotificationDate(booking.dates[j])) <= clock}}

\* the slots one call of scheduleBookingNotifications skips
skippedByBooking(notifs, booking, forceReschedule, perm, clock) ==
  IF ~hasNotificationPermission(perm) THEN {}
  ELSE IF ~forceReschedule /\ hasNotificationsScheduled(notifs, booking.id) THEN {}
  ELSE skippedSlots(booking, clock)

\* a scheduling that adds to the reminders it finds
scheduleBookingNotificationsAdding(notifs, booking, forceReschedule, perm, clock) ==
  IF ~hasNotificationPermission(perm) THEN notifs
  ELSE IF ~forceReschedule /\ hasNotificationsScheduled(notifs, booking.id)
  THEN notifs
  ELSE scheduleSlots(notifs, booking, 1, clock)

\* scheduleBookingNotifications
scheduleBookingNotifications(notifs, booking, forceReschedule, perm, clock) ==
  IF ~hasNotificationPermission(perm) THEN notifs
  ELSE IF ~forceReschedule /\ hasNotificationsScheduled(notifs, booking.id)
  THEN notifs
  ELSE scheduleSlots(removeNotificationsForBooking(notifs, booking.id),
                     booking, 1, clock)

\* scheduleNotificationsForAllBookings
RECURSIVE scheduleNotificationsForAllBookings(_, _, _, _, _)
scheduleNotificationsForAllBookings(notifs, allBookings, i, perm, clock) ==
  IF ~hasNotificationPermission(perm) \/ i > Len(allBookings) THEN notifs
  ELSE scheduleNotificationsForAllBookings(
         IF hasNotificationsScheduled(notifs, allBookings[i].id) THEN notifs
         ELSE scheduleBookingNotifications(notifs, allBookings[i], FALSE, perm, clock),
         allBookings, i + 1, perm, clock)

\* requestNotificationPermission: the browser's answer when it has to ask
requestNotificationPermission(perm, answer) ==
  IF perm = "default" THEN answer ELSE perm

\* handleRequestPermission of the NotificationPermission card: ask, and when
\* granted schedule reminders for the bookings the page holds
HandleRequestPermission(answer) ==
  LET perm == requestNotificationPermission(permission, answer)
  IN /\ permission' = perm
     /\ notifications' =
          IF perm = "granted"
          THEN scheduleNotificationsForAllBookings(
                 notifications, NewestFirst(store, DOMAIN store), 1, perm, now)
          ELSE notifications
     /\ skipped' = skipped \cup
          UNION {skippedByBooking(notifications, toBookingData(id, store[id]),
                                  FALSE, perm, now) : id \in DOMAIN store}
     /\ UNCHANGED <<store, nextId, lastResult, datesColumn, now, storeCalls,
                    calendarVars, lastSchedule, shownNotifications, lastSweep,
                    checking>>

\* a call of scheduleBookingNotifications for a booking read from the table
ScheduleBookingNotifications(id, forceReschedule) ==
  /\ id \in DOMAIN store
  /\ notifications' =
       scheduleBookingNotifications(notifications, toBookingData(id, store[id]),
                                    forceReschedule, permission, now)
  /\ lastSchedule' =
       [booking |-> toBookingData(id, store[id]),
        forceReschedule |-> forceReschedule, permission |-> permission,
        now |-> now,
        alreadyScheduled |-> hasNotificationsScheduled(notifications, id),
        after |-> notifications']
  /\ skipped' = skipped \cup
       skippedByBooking(notifications, toBookingData(id, store[id]),
                        forceReschedule, permission, now)
  /\ UNCHANGED <<store, nextId, lastResult, datesColumn, permission, now,
                 storeCalls, calendarVars, shownNotifications, lastSweep,
                 checking>>

\* time passes
Tick ==
  /\ now < MaxNow
  /\ now' = now + 1
  /\ UNCHANGED <<store, nextId, lastResult, datesColumn, notifications, lastSchedule,
                 dueVars,
                 permission, storeCalls, calendarVars>>

\* the instant of the first booked date and the one after it, which the
\* clock reaches long after the bookings were made
SweepInstants ==
  {getTime(LocalDate(NotificationLeadDays + 1, "00:00")) + k : k \in {0, 1}}

\* a long time passes
Elapse(t) ==
  /\ t > now
  /\ now' = t
  /\ UNCHANGED <<store, nextId, lastResult, datesColumn, notifications, lastSchedule,
                 dueVars, permission, storeCalls, calendarVars>>

\* the user withdraws the permission in the browser's site settings
RevokePermission ==
  /\ permission = "granted"
  /\ permission' = "denied"
  /\ UNCHANGED <<store, nextId, lastResult, datesColumn, notifications, lastSchedule,
                 dueVars, now, storeCalls, calendarVars>>

\* a cleanup that drops by the reminder time
cleanupByReminderTime(notifs, clock) ==
  {n \in notifs : ~(n.notificationDate < clock)}

\* cleanupOldNotifications: delete every record whose bookedDate < now
cleanupOldNotifications(notifs, clock) ==
  {n \in notifs : ~(n.bookedDate < clock)}

\* a first pass that finds no record due
dueNotificationsNever(notifs, clock) == {}

\* the first pass of the due check: notificationDate <= now && now <= bookedDate
\* && !notification.shown (no record is ever stored with shown set)
dueNotifications(notifs, clock) ==
  {n \in notifs : n.notificationDate <= clock /\ clock <= n.bookedDate}

\* index.getAll() of the 'notificationDate' index: by reminder time, then key
RECURSIVE byNotificationDate(_)
byNotificationDate(notifs) ==
  IF notifs = {} THEN <<>>
  ELSE LET first == CHOOSE n \in notifs : \A m \in notifs :
                      \/ n.notificationDate < m.notificationDate
                      \/ /\ n.notificationDate = m.notificationDate
                         /\ \/ n.id[1] < m.id[1]
                            \/ n.id[1] = m.id[1] /\ n.id[2] <= m.id[2]
       IN <<first.id>> \o byNotificationDate(notifs \ {first})

\* the three cases of a pending reminder at an instant
BookedDatePassed(n, clock) == n.bookedDate < clock
ReminderDue(n, clock) == n.notificationDate <= clock /\ ~BookedDatePassed(n, clock)
ReminderAhead(n, clock) == n.notificationDate > clock

\* whether a run can show notifications: it has the permission and
\* showNotification does not fail
delivers(perm, fault) == hasNotificationPermission(perm) /\ fault = "none"

Sweep(runner, fault) ==
  [runner |-> runner, delivers |-> delivers(permission, fault),
   found |-> {c \in {"due", "passed", "ahead", "skipped"} :
                \/ c = "due" /\ \E n \in notifications : ReminderDue(n, now)
                \/ c = "passed" /\ \E n \in notifications : BookedDatePassed(n, now)
                \/ c = "ahead" /\ \E n \in notifications : ReminderAhead(n, now)
                \/ c = "skipped" /\ \E n \in skipped : ReminderDue(n, now)}]

\* checkAndShowDueNotifications of the page
CheckAndShowDueNotifications ==
  LET kept == cleanupOldNotifications(notifications, now)
      due == dueNotifications(kept, now)
  IN /\ IF ~hasNotificationPermission(permission)
        THEN UNCHANGED <<notifications, shownNotifications>>
        ELSE /\ notifications' = kept \ due
             /\ shownNotifications' = shownNotifications \o byNotificationDate(due)
     /\ lastSweep' = Sweep("page", "none")
     /\ UNCHANGED <<store, nextId, lastResult, datesColumn, permission, now,
                    storeCalls, calendarVars, lastSchedule, skipped, checking>>

\* checkDueNotifications of the service worker: registration.showNotification
\* rejects without the permission, or when the fault is "show"; the catch
\* then keeps the record
CheckDueNotifications(fault) ==
  LET kept == cleanupOldNotifications(notifications, now)
      due == dueNotifications(kept, now)
      delivered == IF delivers(permission, fault) THEN due ELSE {}
  IN /\ notifications' = kept \ delivered
     /\ shownNotifications' = shownNotifications \o byNotificationDate(delivered)
     /\ lastSweep' = Sweep("worker", fault)
     /\ UNCHANGED <<store, nextId, lastResult, datesColumn, permission, now,
                    storeCalls, calendarVars, lastSchedule, skipped, checking>>

\* a due-check up to its second pass: the cleanup, the read of all records
\* and the first pass that shows the due ones and notes their ids
BeginDueCheck(runner, fault) ==
  LET kept == cleanupOldNotifications(notifications, now)
      due == dueNotifications(kept, now)
      delivered == IF delivers(permission, fault) THEN due ELSE {}
  IN /\ ~checking[runner].running
     /\ runner = "page" => hasNotificationPermission(permission) /\ fault = "none"
     /\ notifications' = kept
     /\ shownNotifications' = shownNotifications \o byNotificationDate(delivered)
     /\ checking' = [checking EXCEPT ![runner] =
                       [running |-> TRUE, ids |-> {n.id : n \in delivered}]]
     /\ UNCHANGED <<store, nextId, lastResult, datesColumn, permission, now,
                    storeCalls, calendarVars, lastSchedule, skipped, lastSweep>>

\* the second pass, in a transaction of its own: delete the ids noted
FinishDueCheck(runner) ==
  /\ checking[runner].running
  /\ notifications' = {n \in notifications : n.id \notin checking[runner].ids}
  /\ checking' = [checking EXCEPT ![runner] = NotChecking]
  /\ UNCHANGED <<store, nextId, lastResult, datesColumn, permission, now,
                 storeCalls, calendarVars, lastSchedule, skipped, lastSweep,
                 shownNotifications>>

\* ------------------------------------------------------- BookingCalendar
\* the days of the month the calendar shows; a click hands the handler the
\* local midnight of the day
CalendarDays == (NotificationLeadDays + 1)..(NotificationLeadDays + MaxCalendarDay)

\* date-fns isSameDay; false when either side is an Invalid Date
isSameDay(a, b) == a.valid /\ b.valid /\ a.day = b.day

\* date-fns addDays
addDays(date, amount) ==
  IF date.valid THEN [date EXCEPT !.day = @ + amount] ELSE date

\* [...].sort((a, b) => a.getTime() - b.getTime())
RECURSIVE sortByTime(_)
sortByTime(dates) ==
  IF dates = <<>> THEN <<>>
  ELSE LET m == CHOOSE i \in DOMAIN dates :
                  \A j \in DOMAIN dates :
                    \/ getTime(dates[i]) < getTime(dates[j])
                    \/ getTime(dates[i]) = getTime(dates[j]) /\ i <= j
           rest == [k \in 1..(Len(dates) - 1) |->
                      IF k < m THEN dates[k] ELSE dates[k + 1]]
       IN <<dates[m]>> \o sortByTime(rest)

\* prev.filter(d => !isSameDay(d, date))
RECURSIVE filterOut(_, _)
filterOut(prev, date) ==
  IF prev = <<>> THEN <<>>
  ELSE (IF isSameDay(Head(prev), date) THEN <<>> ELSE <<Head(prev)>>)
         \o filterOut(Tail(prev), date)

\* isDateBooked
isDateBooked(bks, date) ==
  \E i \in DOMAIN bks : \E j \in DOMAIN bks[i].dates :
    isSameDay(bks[i].dates[j], date)

\* a lookup that compares the first date of each booking only
getBookingForFirstDate(bks, date) ==
  LET hits == {i \in DOMAIN bks :
                 bks[i].dates # <<>> /\ isSameDay(bks[i].dates[1], date)}
  IN IF hits = {} THEN NoBooking
     ELSE bks[CHOOSE i \in hits : \A k \in hits : i <= k]

\* getBookingForDate: bookings.find(...), null when there is none
getBookingForDate(bks, date) ==
  LET hits == {i \in DOMAIN bks :
                 \E j \in DOMAIN bks[i].dates : isSameDay(bks[i].dates[j], date)}
  IN IF hits = {} THEN NoBooking
     ELSE bks[CHOOSE i \in hits : \A k \in hits : i <= k]

\* getBookingsForDate: bookings.filter(...), as the set of the bookings
getBookingsForDate(bks, date) ==
  {bks[i] : i \in {k \in DOMAIN bks :
                     \E j \in DOMAIN bks[k].dates : isSameDay(bks[k].dates[j], date)}}

\* the loop of handleDateSelect that looks for a gap between neighbours
hasGap(newDates) ==
  \E i \in 2..Len(newDates) :
    ~isSameDay(addDays(newDates[i - 1], 1), newDates[i])

\* an updater whose toggle-off empties the selection
selectedDatesClearOnToggle(prev, date) ==
  IF \E i \in DOMAIN prev : isSameDay(prev[i], date)
  THEN <<>>
  ELSE LET newDates == sortByTime(Append(prev, date))
       IN IF hasGap(newDates) THEN prev ELSE newDates

\* the updater handleDateSelect gives setSelectedDates (consecutive dates)
selectedDatesUpdater(prev, date) ==
  IF \E i \in DOMAIN prev : isSameDay(prev[i], date)
  THEN filterOut(prev, date)
  ELSE LET newDates == sortByTime(Append(prev, date))
       IN IF hasGap(newDates) THEN prev ELSE newDates

\* an updater that adds the clicked date whether or not it is selected
selectedDatesAddAlways(prev, date) == sortByTime(Append(prev, date))

\* the updater of the date-slot version of handleDateSelect
selectedDatesUpdaterDateSlots(prev, date) ==
  IF \E i \in DOMAIN prev : isSameDay(prev[i], date)
  THEN filterOut(prev, date)
  ELSE sortByTime(Append(prev, date))

Event(handler, date) ==
  [handler |-> handler, date |-> date, selectedDates |-> selectedDates,
   bookings |-> bookings, editingBooking |-> editingBooking]

\* the component mounts: useEffect(() => { fetchBookings(); })
Mount(version, fault) ==
  /\ component = "none"
  /\ component' = version
  /\ FetchBookings(fault)
  /\ bookings' = IF lastResult'.outcome = "ok" THEN lastResult'.returned
                                               ELSE bookings
  /\ alertMessage' = IF lastResult'.outcome = "ok" THEN ""
                     ELSE "Failed to fetch bookings"
  /\ lastEvent' = Event("mount", NoDate)
  /\ UNCHANGED inFlight
  /\ UNCHANGED <<selectedDates, showBookingForm, showBookingDetails,
                 showDateBookingsDialog, selectedDateForDialog,
                 selectedBooking, editingBooking>>

\* handleDateSelect, of the mounted version; the calendar disables the days
\* before today
HandleDateSelect(date) ==
  /\ component # "none"
  /\ getTime(date) >= 2 * (now \div 2)
  /\ lastEvent' = Event("handleDateSelect", date)
  /\ UNCHANGED inFlight
  /\ IF component = "dates"
     THEN /\ LET existingBooking == getBookingForDate(bookings, date)
             IN IF existingBooking # NoBooking
                THEN /\ selectedBooking' = existingBooking
                     /\ showBookingDetails' = TRUE
                     /\ alertMessage' = ""
                     /\ UNCHANGED selectedDates
                ELSE /\ selectedDates' =
                          selectedDatesUpdater(selectedDates, date)
                     /\ alertMessage' =
                          IF /\ ~(\E i \in DOMAIN selectedDates :
                                    isSameDay(selectedDates[i], date))
                             /\ hasGap(sortByTime(Append(selectedDates, date)))
                          THEN "Please select consecutive dates only" ELSE ""
                     /\ UNCHANGED <<selectedBooking, showBookingDetails>>
          /\ UNCHANGED <<selectedDateForDialog, showDateBookingsDialog>>
     ELSE /\ IF isDateBooked(bookings, date)
             THEN /\ selectedDateForDialog' = date
                  /\ showDateBookingsDialog' = TRUE
                  /\ UNCHANGED selectedDates
             ELSE /\ selectedDates' =
                       selectedDatesUpdaterDateSlots(selectedDates, date)
                  /\ UNCHANGED <<selectedDateForDialog, showDateBookingsDialog>>
          /\ alertMessage' = ""
          /\ UNCHANGED <<selectedBooking, showBookingDetails>>
  /\ UNCHANGED <<component, bookings, showBookingForm, editingBooking>>
  /\ UNCHANGED <<store, nextId, lastResult, datesColumn, notifications, lastSchedule,
                 dueVars,
                 permission, now, storeCalls>>

\* handleBookDates; the button is disabled while nothing is selected
HandleBookDates ==
  /\ component # "none"
  /\ Len(selectedDates) > 0
  /\ showBookingForm' = TRUE
  /\ alertMessage' = ""
  /\ lastEvent' = Event("handleBookDates", NoDate)
  /\ UNCHANGED inFlight
  /\ UNCHANGED <<component, selectedDates, bookings, showBookingDetails,
                 showDateBookingsDialog, selectedDateForDialog,
                 selectedBooking, editingBooking>>
  /\ UNCHANGED <<store, nextId, lastResult, datesColumn, notifications, lastSchedule,
                 dueVars,
                 permission, now, storeCalls>>

\* the dates handleFormSubmit hands on: the selected dates themselves, or,
\* in the date-slot form, each with the start time entered for it
formDates(version, dates, dateTimes) ==
  IF version = "dates" THEN dates
  ELSE [i \in DOMAIN dates |->
          IF dates[i].valid THEN LocalDate(dates[i].day, dateTimes[dates[i].day])
                            ELSE dates[i]]

\* handleBookingSubmit: update when a booking is being edited, else create;
\* refresh the list after a success; then, whatever happened, clear the
\* selection and the edited booking and close the form
HandleBookingSubmit(bookingData, fault) ==
  /\ component # "none"
  /\ showBookingForm
  /\ selectedDates # <<>>
  /\ LET bookingPayload ==
           IF component = "dates"
           THEN [bookingData EXCEPT !.dates = selectedDates]
           ELSE bookingData
     IN IF editingBooking # NoBooking
        THEN UpdateBooking(editingBooking.id, bookingPayload, fault)
        ELSE CreateBooking(bookingPayload, fault)
  /\ bookings' = IF lastResult'.outcome = "ok"
                 THEN NewestFirst(store', DOMAIN store') ELSE bookings
  /\ alertMessage' =
       IF lastResult'.outcome = "ok" THEN ""
       ELSE IF editingBooking # NoBooking THEN "Failed to update booking"
       ELSE "Failed to create booking"
  /\ selectedDates' = <<>>
  /\ editingBooking' = NoBooking
  /\ showBookingForm' = FALSE
  /\ lastEvent' = Event("handleBookingSubmit", NoDate)
  /\ UNCHANGED inFlight
  /\ UNCHANGED <<component, showBookingDetails, showDateBookingsDialog,
                 selectedDateForDialog, selectedBooking>>

\* ----------------------------------------------------------- BookingForm
\* the texts typed into the phone number and price fields, as characters
chars ==
  "9876543210" :> <<"9", "8", "7", "6", "5", "4", "3", "2", "1", "0">> @@
  "987654321" :> <<"9", "8", "7", "6", "5", "4", "3", "2", "1">> @@
  "98765432101" :> <<"9", "8", "7", "6", "5", "4", "3", "2", "1", "0", "1">> @@
  "5876543210" :> <<"5", "8", "7", "6", "5", "4", "3", "2", "1", "0">> @@
  "98765x3210" :> <<"9", "8", "7", "6", "5", "x", "3", "2", "1", "0">> @@
  "1500" :> <<"1", "5", "0", "0">> @@
  "0" :> <<"0">> @@
  "0.00" :> <<"0", ".", "0", "0">> @@
  "1500.505" :> <<"1", "5", "0", "0", ".", "5", "0", "5">> @@
  "-1500" :> <<"-", "1", "5", "0", "0">> @@
  "1500." :> <<"1", "5", "0", "0", ".">> @@
  "Asha" :> <<"A", "s", "h", "a">> @@
  "A" :> <<"A">> @@
  "" :> <<>>

\* \d and the value of a digit
digit ==
  "0" :> 0 @@ "1" :> 1 @@ "2" :> 2 @@ "3" :> 3 @@ "4" :> 4 @@
  "5" :> 5 @@ "6" :> 6 @@ "7" :> 7 @@ "8" :> 8 @@ "9" :> 9

allDigits(cs) == \A i \in DOMAIN cs : cs[i] \in DOMAIN digit

\* a phone pattern that does not count the digits
matchesAnyLength(cs) ==
  /\ Len(cs) >= 1
  /\ cs[1] \in {"6", "7", "8", "9"}
  /\ allDigits(cs)

\* /^[6-9]\d{9}$/
matchesPhoneNumber(cs) ==
  /\ Len(cs) = 10
  /\ cs[1] \in {"6", "7", "8", "9"}
  /\ allDigits(cs)

\* where /^\d+(\.\d{1,2})?$/ ends its integer part, 0 when it does not match
integerPart(cs) ==
  LET ends == {n \in 1..Len(cs) :
                 /\ allDigits(SubSeq(cs, 1, n))
                 /\ \/ n = Len(cs)
                    \/ /\ cs[n + 1] = "."
                       /\ Len(cs) - (n + 1) \in {1, 2}
                       /\ allDigits(SubSeq(cs, n + 2, Len(cs)))}
  IN IF ends = {} THEN 0 ELSE CHOOSE n \in ends : TRUE

matchesPrice(cs) == integerPart(cs) > 0

\* the number a run of digits writes
RECURSIVE decimal(_)
decimal(cs) ==
  IF cs = <<>> THEN 0
  ELSE 10 * decimal(SubSeq(cs, 1, Len(cs) - 1)) + digit[cs[Len(cs)]]

\* the length of the run of digits a text starts with
leadingDigits(cs) ==
  CHOOSE n \in 0..Len(cs) :
    /\ allDigits(SubSeq(cs, 1, n))
    /\ n < Len(cs) => cs[n + 1] \notin DOMAIN digit

\* the sign, the integer digits and the fraction digits parseFloat reads
floatParts(cs) ==
  LET negative == cs # <<>> /\ cs[1] = "-"
      body == IF negative THEN Tail(cs) ELSE cs
      n == leadingDigits(body)
      rest == SubSeq(body, n + 1, Len(body))
      f == IF rest # <<>> /\ rest[1] = "." THEN leadingDigits(Tail(rest)) ELSE 0
  IN [negative |-> negative, integer |-> SubSeq(body, 1, n),
      fraction |-> SubSeq(body, n + 2, n + 1 + f)]

\* parseFloat gives NaN for a text without a digit to read
isNaN(cs) == floatParts(cs).integer = <<>> /\ floatParts(cs).fraction = <<>>

\* parseFloat, in thousandths (the texts typed have at most three fraction
\* digits); 0 stands for NaN, which like 0 is not > 0
parseFloat(cs) ==
  LET parts == floatParts(cs)
      f == Len(parts.fraction)
      thousandths == 1000 * decimal(parts.integer)
                     + decimal(parts.fraction)
                       * (IF f = 1 THEN 100 ELSE IF f = 2 THEN 10 ELSE 1)
  IN IF isNaN(cs) THEN 0
     ELSE IF parts.negative THEN 0 - thousandths ELSE thousandths

\* bookingSchema, as the zodResolver applies it to the fields of the form
bookingSchema(data) ==
  /\ Len(chars[data.fullName]) >= 2
  /\ matchesPhoneNumber(chars[data.phoneNumber])
  /\ matchesPrice(chars[data.price])
  /\ parseFloat(chars[data.price]) > 0

\* the dateTimes map of the date-slot form: the times entered with
\* handleTimeChange, else the slot times of the booking being edited, else,
\* for a new booking, the default '00:00'
dateTimes(entered) ==
  LET edited == {editingBooking.dates[i].day : i \in DOMAIN editingBooking.dates}
      known == DOMAIN entered \cup
               (IF editingBooking # NoBooking THEN edited ELSE CalendarDays)
  IN [d \in known |->
        IF d \in DOMAIN entered THEN entered[d]
        ELSE IF editingBooking # NoBooking
        THEN (CHOOSE x \in SeqRange(editingBooking.dates) : x.day = d).time
        ELSE "00:00"]

\* the selected dates for which the date-slot form holds no time
missingTimes(entered) ==
  IF component = "dates" THEN {}
  ELSE {i \in DOMAIN selectedDates :
          selectedDates[i].day \notin DOMAIN dateTimes(entered)}

\* the form is submitted: handleSubmit(handleFormSubmit) runs handleFormSubmit
\* when the resolver accepts the fields, and handleFormSubmit hands the
\* booking to onSubmit when every selected date has a time
SubmitForm(data, entered, fault) ==
  /\ component # "none"
  /\ showBookingForm
  /\ IF bookingSchema(data) /\ selectedDates # <<>> /\ missingTimes(entered) = {}
     THEN HandleBookingSubmit(
            [dates |-> formDates(component, selectedDates,
                                 [d \in CalendarDays |->
                                    IF d \in DOMAIN dateTimes(entered)
                                    THEN dateTimes(entered)[d] ELSE ""]),
             fullName |-> data.fullName,
             phoneNumber |-> data.phoneNumber,
             price |-> parseFloat(chars[data.price]),
             otherDetails |-> ""],
            fault)
     ELSE /\ alertMessage' =
               IF bookingSchema(data) /\ selectedDates # <<>>
               THEN "Please provide start time for all selected dates" ELSE ""
          /\ lastEvent' = Event("handleFormSubmit", NoDate)
          /\ UNCHANGED inFlight
          /\ UNCHANGED <<component, selectedDates, bookings, showBookingForm,
                         showBookingDetails, showDateBookingsDialog,
                         selectedDateForDialog, selectedBooking, editingBooking>>
          /\ UNCHANGED <<store, nextId, lastResult, datesColumn, notifications,
                         lastSchedule, dueVars, permission, now, storeCalls>>

\* handleViewDetails, from the list of bookings
HandleViewDetails(booking) ==
  /\ component # "none"
  /\ \E i \in DOMAIN bookings : bookings[i] = booking
  /\ selectedBooking' = booking
  /\ showBookingDetails' = TRUE
  /\ alertMessage' = ""
  /\ lastEvent' = Event("handleViewDetails", NoDate)
  /\ UNCHANGED inFlight
  /\ UNCHANGED <<component, selectedDates, bookings, showBookingForm,
                 showDateBookingsDialog, selectedDateForDialog, editingBooking>>
  /\ UNCHANGED <<store, nextId, lastResult, datesColumn, notifications, lastSchedule,
                 dueVars,
                 permission, now, storeCalls>>

\* handleEditBooking, from the details dialog
HandleEditBooking ==
  /\ component # "none"
  /\ showBookingDetails
  /\ selectedBooking # NoBooking
  /\ editingBooking' = selectedBooking
  /\ selectedDates' = selectedBooking.dates
  /\ showBookingDetails' = FALSE
  /\ showBookingForm' = TRUE
  /\ alertMessage' = ""
  /\ lastEvent' = Event("handleEditBooking", NoDate)
  /\ UNCHANGED inFlight
  /\ UNCHANGED <<component, bookings, showDateBookingsDialog,
                 selectedDateForDialog, selectedBooking>>
  /\ UNCHANGED <<store, nextId, lastResult, datesColumn, notifications, lastSchedule,
                 dueVars,
                 permission, now, storeCalls>>

\* handleDeleteBooking, from the details dialog
HandleDeleteBooking(fault) ==
  /\ component # "none"
  /\ showBookingDetails
  /\ selectedBooking # NoBooking
  /\ DeleteBooking(selectedBooking.id, fault)
  /\ bookings' = IF lastResult'.outcome = "ok"
                 THEN NewestFirst(store', DOMAIN store') ELSE bookings
  /\ alertMessage' = IF lastResult'.outcome = "ok" THEN ""
                     ELSE "Failed to delete booking. Please try again."
  /\ showBookingDetails' = FALSE
  /\ selectedBooking' = NoBooking
  /\ lastEvent' = Event("handleDeleteBooking", NoDate)
  /\ UNCHANGED inFlight
  /\ UNCHANGED <<component, selectedDates, showBookingForm,
                 showDateBookingsDialog, selectedDateForDialog, editingBooking>>

\* a close that hides the form and leaves the selection and the edited booking
CloseBookingFormOnly ==
  /\ component # "none"
  /\ showBookingForm
  /\ showBookingForm' = FALSE
  /\ alertMessage' = ""
  /\ lastEvent' = Event("closeBookingForm", NoDate)
  /\ UNCHANGED inFlight
  /\ UNCHANGED <<component, bookings, showBookingDetails, selectedDates,
                 editingBooking,
                 showDateBookingsDialog, selectedDateForDialog, selectedBooking>>
  /\ UNCHANGED <<store, nextId, lastResult, datesColumn, notifications, lastSchedule,
                 dueVars,
                 permission, now, storeCalls>>

\* onClose of the BookingForm
CloseBookingForm ==
  /\ component # "none"
  /\ showBookingForm
  /\ showBookingForm' = FALSE
  /\ selectedDates' = <<>>
  /\ editingBooking' = NoBooking
  /\ alertMessage' = ""
  /\ lastEvent' = Event("closeBookingForm", NoDate)
  /\ UNCHANGED inFlight
  /\ UNCHANGED <<component, bookings, showBookingDetails,
                 showDateBookingsDialog, selectedDateForDialog, selectedBooking>>
  /\ UNCHANGED <<store, nextId, lastResult, datesColumn, notifications, lastSchedule,
                 dueVars,
                 permission, now, storeCalls>>

\* onClose of the BookingDetails dialog
CloseBookingDetails ==
  /\ component # "none"
  /\ showBookingDetails
  /\ showBookingDetails' = FALSE
  /\ selectedBooking' = NoBooking
  /\ alertMessage' = ""
  /\ lastEvent' = Event("closeBookingDetails", NoDate)
  /\ UNCHANGED inFlight
  /\ UNCHANGED <<component, selectedDates, bookings, showBookingForm,
                 showDateBookingsDialog, selectedDateForDialog, editingBooking>>
  /\ UNCHANGED <<store, nextId, lastResult, datesColumn, notifications, lastSchedule,
                 dueVars,
                 permission, now, storeCalls>>

\* handleAddBookingForDate, from the dialog of a booked date
HandleAddBookingForDate ==
  /\ component = "dateSlots"
  /\ showDateBookingsDialog
  /\ selectedDateForDialog # NoDate
  /\ selectedDates' = <<selectedDateForDialog>>
  /\ showDateBookingsDialog' = FALSE
  /\ showBookingForm' = TRUE
  /\ alertMessage' = ""
  /\ lastEvent' = Event("handleAddBookingForDate", selectedDateForDialog)
  /\ UNCHANGED inFlight
  /\ UNCHANGED <<component, bookings, showBookingDetails,
                 selectedDateForDialog, selectedBooking, editingBooking>>
  /\ UNCHANGED <<store, nextId, lastResult, datesColumn, notifications, lastSchedule,
                 dueVars,
                 permission, now, storeCalls>>

\* handleEditBookingFromDialog, for a booking the dialog lists
HandleEditBookingFromDialog(booking) ==
  /\ component = "dateSlots"
  /\ showDateBookingsDialog
  /\ booking \in getBookingsForDate(bookings, selectedDateForDialog)
  /\ editingBooking' = booking
  /\ selectedDates' = booking.dates
  /\ showDateBookingsDialog' = FALSE
  /\ showBookingForm' = TRUE
  /\ alertMessage' = ""
  /\ lastEvent' = Event("handleEditBookingFromDialog", selectedDateForDialog)
  /\ UNCHANGED inFlight
  /\ UNCHANGED <<component, bookings, showBookingDetails,
                 selectedDateForDialog, selectedBooking>>
  /\ UNCHANGED <<store, nextId, lastResult, datesColumn, notifications, lastSchedule,
                 dueVars,
                 permission, now, storeCalls>>

\* handleDeleteBookingFromDialog, for a booking the dialog lists
HandleDeleteBookingFromDialog(booking, fault) ==
  /\ component = "dateSlots"
  /\ showDateBookingsDialog
  /\ booking \in getBookingsForDate(bookings, selectedDateForDialog)
  /\ DeleteBooking(booking.id, fault)
  /\ bookings' = IF lastResult'.outcome = "ok"
                 THEN NewestFirst(store', DOMAIN store') ELSE bookings
  /\ alertMessage' = IF lastResult'.outcome = "ok" THEN ""
                     ELSE "Failed to delete booking. Please try again."
  /\ lastEvent' = Event("handleDeleteBookingFromDialog", selectedDateForDialog)
  /\ UNCHANGED inFlight
  /\ UNCHANGED <<component, selectedDates, showBookingForm, showBookingDetails,
                 showDateBookingsDialog, selectedDateForDialog,
                 selectedBooking, editingBooking>>

\* onClose of the DateBookingsDialog
CloseDateBookingsDialog ==
  /\ component = "dateSlots"
  /\ showDateBookingsDialog
  /\ showDateBookingsDialog' = FALSE
  /\ selectedDateForDialog' = NoDate
  /\ alertMessage' = ""
  /\ lastEvent' = Event("closeDateBookingsDialog", NoDate)
  /\ UNCHANGED inFlight
  /\ UNCHANGED <<component, selectedDates, bookings, showBookingForm,
                 showBookingDetails, selectedBooking, editingBooking>>
  /\ UNCHANGED <<store, nextId, lastResult, datesColumn, notifications, lastSchedule,
                 dueVars,
                 permission, now, storeCalls>>

\* the repository driven by one client, every store call answered
Next ==
  \/ \E draft \in Drafts : CreateBooking(draft, "none") /\ UNCHANGED calendarVars
  \/ \E id \in Ids, draft \in Drafts : UpdateBooking(id, draft, "none") /\ UNCHANGED calendarVars
  \/ \E id \in Ids : DeleteBooking(id, "none") /\ UNCHANGED calendarVars
  \/ FetchBookings("none") /\ UNCHANGED calendarVars

Spec == Init /\ [][Next]_vars

\* the same client against a table that the migration script is run on once
NextMigrated ==
  \/ \E draft \in Drafts : CreateBooking(draft, "none") /\ UNCHANGED calendarVars
  \/ \E id \in Ids, draft \in Drafts : UpdateBooking(id, draft, "none") /\ UNCHANGED calendarVars
  \/ \E id \in Ids : DeleteBooking(id, "none") /\ UNCHANGED calendarVars
  \/ FetchBookings("none") /\ UNCHANGED calendarVars
  \/ MigrateDatesToText

SpecMigrated == Init /\ [][NextMigrated]_vars

\* what a store call can do: answer, or come back with an error on the read
\* or on the write of the operation
Faults == {"none", "read", "write"}

\* the drafts of one customer
FaultDrafts == {d \in Drafts : d.fullName = "Asha"}

\* the repository against a store that can fail any call
NextFaults ==
  \/ \E draft \in FaultDrafts, fault \in Faults : CreateBooking(draft, fault) /\ UNCHANGED calendarVars
  \/ \E id \in Ids, draft \in FaultDrafts, fault \in Faults :
       UpdateBooking(id, draft, fault) /\ UNCHANGED calendarVars
  \/ \E id \in Ids, fault \in Faults : DeleteBooking(id, fault) /\ UNCHANGED calendarVars
  \/ \E fault \in Faults : FetchBookings(fault) /\ UNCHANGED calendarVars

SpecFaults == Init /\ [][NextFaults]_vars

\* the two BookingCalendar components of the source
Versions == {"dates", "dateSlots"}

\* the customer whose fields the form is filled with
CalendarCustomer == CHOOSE c \in Customers : c.fullName = "Asha"

\* every date booked from local midnight
MidnightTimes == [d \in CalendarDays |-> "00:00"]

\* the date selection of the page: clicks on days, the form opened, submitted
\* and closed, bookings opened for editing, a booking added on a booked date
NextSelection ==
  \/ \E version \in Versions : Mount(version, "none")
  \/ \E d \in CalendarDays : HandleDateSelect(LocalDate(d, "00:00"))
  \/ HandleBookDates
  \/ HandleBookingSubmit(
       Draft(formDates(component, selectedDates, MidnightTimes), CalendarCustomer),
       "none")
  \/ HandleEditBooking
  \/ CloseBookingForm
  \/ CloseBookingDetails
  \/ HandleAddBookingForDate
  \/ \E i \in DOMAIN bookings : HandleEditBookingFromDialog(bookings[i])
  \/ CloseDateBookingsDialog

SpecSelection == Init /\ [][NextSelection]_vars

\* the page against a store that can fail the calls of a submit, the form
\* filled with one start time for all its dates
NextCalendar ==
  \/ \E version \in Versions : Mount(version, "none")
  \/ \E d \in CalendarDays : HandleDateSelect(LocalDate(d, "00:00"))
  \/ HandleBookDates
  \/ \E t \in Times, fault \in Faults :
       HandleBookingSubmit(
         Draft(formDates(component, selectedDates, [d \in CalendarDays |-> t]),
               CalendarCustomer),
         fault)
  \/ HandleEditBooking
  \/ CloseBookingForm
  \/ CloseBookingDetails
  \/ HandleAddBookingForDate
  \/ \E i \in DOMAIN bookings : HandleEditBookingFromDialog(bookings[i])
  \/ CloseDateBookingsDialog

SpecCalendar == Init /\ [][NextCalendar]_vars

\* what is typed into the form: the fields of a customer, one of them
\* possibly mistyped
FormTexts ==
  LET good == [fullName |-> "Asha", phoneNumber |-> "9876543210", price |-> "1500"]
  IN {[good EXCEPT !.fullName = x] : x \in {"Asha", "A"}}
     \cup {[good EXCEPT !.phoneNumber = x] :
             x \in {"987654321", "98765432101", "5876543210", "98765x3210", ""}}
     \cup {[good EXCEPT !.price = x] :
             x \in {"0", "0.00", "1500.505", "-1500", "1500.", ""}}

\* the start times entered: none, or midnight for every day
EnteredTimes ==
  {[d \in {} |-> "00:00"], [d \in CalendarDays |-> "00:00"]}

\* the page with its form
NextForm ==
  \/ \E version \in Versions : Mount(version, "none")
  \/ \E d \in CalendarDays : HandleDateSelect(LocalDate(d, "00:00"))
  \/ HandleBookDates
  \/ \E data \in FormTexts, entered \in EnteredTimes : SubmitForm(data, entered, "none")
  \/ \E i \in DOMAIN bookings : HandleEditBookingFromDialog(bookings[i])
  \/ CloseBookingForm

SpecForm == Init /\ [][NextForm]_vars

\* the drafts of one customer who books whole days
ReminderDrafts ==
  {d \in Drafts : d.fullName = "Asha" /\ \A i \in DOMAIN d.dates : d.dates[i].time = "00:00"}

\* the repository together with the reminder scheduler of the same page
NextReminders ==
  \/ \E draft \in ReminderDrafts : CreateBooking(draft, "none") /\ UNCHANGED calendarVars
  \/ \E id \in Ids, draft \in ReminderDrafts : UpdateBooking(id, draft, "none") /\ UNCHANGED calendarVars
  \/ \E id \in Ids : DeleteBooking(id, "none") /\ UNCHANGED calendarVars
  \/ \E answer \in {"granted", "denied", "default"} : HandleRequestPermission(answer)
  \/ \E id \in Ids, force \in BOOLEAN : ScheduleBookingNotifications(id, force)
  \/ Tick

SpecReminders == Init /\ [][NextReminders]_vars

\* bookings made while reminders are scheduled and time passes
NextScheduling ==
  \/ \E draft \in ReminderDrafts : CreateBooking(draft, "none") /\ UNCHANGED calendarVars
  \/ \E answer \in {"granted", "denied"} : HandleRequestPermission(answer)
  \/ \E id \in Ids, force \in BOOLEAN : ScheduleBookingNotifications(id, force)
  \/ Tick

SpecScheduling == Init /\ [][NextScheduling]_vars

\* the drafts that book one day
OneDayDrafts == {d \in ReminderDrafts : Len(d.dates) = 1}

\* bookings that are edited and then scheduled again with forceReschedule
NextReschedule ==
  \/ \E draft \in OneDayDrafts : CreateBooking(draft, "none") /\ UNCHANGED calendarVars
  \/ \E id \in DOMAIN store, draft \in OneDayDrafts :
       UpdateBooking(id, draft, "none") /\ UNCHANGED calendarVars
  \/ HandleRequestPermission("granted")
  \/ RevokePermission
  \/ \E id \in DOMAIN store : ScheduleBookingNotifications(id, TRUE)

SpecReschedule == Init /\ [][NextReschedule]_vars

\* reminders scheduled, then checked by the page and by the service worker
\* as the booked dates come and go
NextDueCheck ==
  \/ \E draft \in OneDayDrafts : CreateBooking(draft, "none") /\ UNCHANGED calendarVars
  \/ \E answer \in {"granted", "denied"} : HandleRequestPermission(answer)
  \/ RevokePermission
  \/ Tick
  \/ \E t \in SweepInstants : Elapse(t)
  \/ CheckAndShowDueNotifications
  \/ \E fault \in {"none", "show"} : CheckDueNotifications(fault)

SpecDueCheck == Init /\ [][NextDueCheck]_vars

\* scheduling and due-checks while the permission is given and withdrawn
NextGate ==
  \/ \E draft \in OneDayDrafts : CreateBooking(draft, "none") /\ UNCHANGED calendarVars
  \/ \E answer \in {"granted", "denied"} : HandleRequestPermission(answer)
  \/ RevokePermission
  \/ \E id \in DOMAIN store : ScheduleBookingNotifications(id, FALSE)
  \/ \E t \in SweepInstants : Elapse(t)
  \/ CheckAndShowDueNotifications
  \/ CheckDueNotifications("none")

SpecGate == Init /\ [][NextGate]_vars

\* the due-checks of the page and of the service worker, each in its two
\* passes, over one notification store
NextInterleaved ==
  \/ \E draft \in OneDayDrafts : CreateBooking(draft, "none") /\ UNCHANGED calendarVars
  \/ HandleRequestPermission("granted")
  \/ \E t \in SweepInstants : Elapse(t)
  \/ \E runner \in Runners : BeginDueCheck(runner, "none")
  \/ \E runner \in Runners : FinishDueCheck(runner)

SpecInterleaved == Init /\ [][NextInterleaved]_vars

\* the service worker's hourly due-check while time passes; a check whose
\* showNotification fails may come at any time, the timer (setInterval) runs
\* the check again and again, and permission, once given, is kept
NextHourly ==
  \/ \E draft \in OneDayDrafts : CreateBooking(draft, "none") /\ UNCHANGED calendarVars
  \/ HandleRequestPermission("granted")
  \/ \E t \in SweepInstants : Elapse(t)
  \/ \E fault \in {"none", "show"} : CheckDueNotifications(fault)

SpecHourly ==
  /\ Init
  /\ [][NextHourly]_vars
  /\ WF_vars(\E t \in SweepInstants : Elapse(t))
  /\ WF_vars(CheckDueNotifications("none"))

\* bookings created, edited and deleted while reminders are scheduled
\* without forceReschedule
NextLifecycle ==
  \/ \E draft \in ReminderDrafts : CreateBooking(draft, "none") /\ UNCHANGED calendarVars
  \/ \E id \in DOMAIN store, draft \in ReminderDrafts :
       UpdateBooking(id, draft, "none") /\ UNCHANGED calendarVars
  \/ \E id \in DOMAIN store : DeleteBooking(id, "none") /\ UNCHANGED calendarVars
  \/ HandleRequestPermission("granted")
  \/ \E id \in DOMAIN store : ScheduleBookingNotifications(id, FALSE)

SpecLifecycle == Init /\ [][NextLifecycle]_vars

\* two client instances whose creates and updates interleave
NextRace ==
  \/ \E c \in Clients, draft \in OneDayDrafts :
       ReadAvailability(c, "create", NoId, draft)
       /\ UNCHANGED <<component, selectedDates, bookings, showBookingForm,
                      showBookingDetails, showDateBookingsDialog,
                      selectedDateForDialog, selectedBooking, editingBooking,
                      alertMessage, lastEvent>>
  \/ \E c \in Clients, id \in DOMAIN store, draft \in OneDayDrafts :
       ReadAvailability(c, "update", id, draft)
       /\ UNCHANGED <<component, selectedDates, bookings, showBookingForm,
                      showBookingDetails, showDateBookingsDialog,
                      selectedDateForDialog, selectedBooking, editingBooking,
                      alertMessage, lastEvent>>
  \/ \E c \in Clients :
       WriteBack(c)
       /\ UNCHANGED <<component, selectedDates, bookings, showBookingForm,
                      showBookingDetails, showDateBookingsDialog,
                      selectedDateForDialog, selectedBooking, editingBooking,
                      alertMessage, lastEvent>>

SpecRace == Init /\ [][NextRace]_vars

\* ------------------------------------------------------------ vocabulary
\* the (calendar date, startTime) pairs written in a row's tokens
SlotsOf(row) == {<<row.dates[i].day, row.dates[i].time>> : i \in DOMAIN row.dates}

\* the (calendar date, startTime) pairs of a draft
DraftSlots(draft) ==
  {<<draft.dates[i].day, draft.dates[i].time>> : i \in DOMAIN draft.dates}

\* some booking of st other than self owns a slot of the draft
Collides(draft, self, st) ==
  \E id \in DOMAIN st : id # self /\ SlotsOf(st[id]) \cap DraftSlots(draft) # {}

IsWrite == lastResult.op \in {"create", "update"}

\* the calendar days of a list of dates
DaysOf(dates) == {dates[i].day : i \in {k \in DOMAIN dates : dates[k].valid}}

\* the calendar days that belong to a booking of the list
BookedDays(bks) == UNION {DaysOf(bks[i].dates) : i \in DOMAIN bks}

\* every day of the set but the first has the day before it in the set
Contiguous(days) ==
  \A x \in days : (\E y \in days : y < x) => (x - 1) \in days

\* the list holds the days of the set, each once, in ascending order
IsSortedListOf(dates, days) ==
  /\ DaysOf(dates) = days
  /\ Len(dates) = Cardinality(days)
  /\ \A i \in 1..(Len(dates) - 1) : dates[i].day < dates[i + 1].day

\* the last handler was a click on a day
Clicked == lastEvent.handler = "handleDateSelect"

ClickedUnbooked ==
  Clicked /\ lastEvent.date.day \notin BookedDays(lastEvent.bookings)

\* ------------------------------------------------------------------ claims
\* C1: no double-booking. After any sequence of create, update and delete
\* calls issued one at a time by one client, no two different bookings of the
\* store own the same (calendar date, startTime) pair.
NoDoubleBooking ==
  \A a \in DOMAIN store : \A b \in DOMAIN store :
    a # b => SlotsOf(store[a]) \cap SlotsOf(store[b]) = {}

\* two bookings stand side by side and the last call was an accepted update
\* of one of the two
TwoBookingsAfterUpdate ==
  /\ Cardinality(DOMAIN store) = 2
  /\ lastResult.op = "update"
  /\ lastResult.outcome = "ok"
  /\ \E a \in DOMAIN store : \E b \in DOMAIN store :
       a # b /\ store[a].dates # <<>> /\ store[b].dates # <<>>

\* C2: a create or update whose proposed slots collide with another booking
\* is rejected with SlotConflict, and a call rejected with SlotConflict has
\* written nothing: the table is the one the call found.
ConflictWritesNothing ==
  /\ (IsWrite /\ Collides(lastResult.draft, lastResult.id, lastResult.before))
       => lastResult.outcome = "SlotConflict"
  /\ lastResult.outcome = "SlotConflict" => store = lastResult.before

\* booking B was asked to take a slot that booking A owns, and was refused
UpdateOntoOwnedSlotRefused ==
  /\ lastResult.op = "update"
  /\ lastResult.id \in DOMAIN store
  /\ Collides(lastResult.draft, lastResult.id, lastResult.before)
  /\ lastResult.outcome = "SlotConflict"

\* C3: conflict detection is exact equality on the (calendar date, startTime)
\* pair: a create or update is refused with SlotConflict exactly when one of
\* its slots has the date and the time of a slot of another booking; a slot
\* on the same date at another time is accepted.
ExactSlotConflict ==
  IsWrite =>
    (lastResult.outcome = "SlotConflict"
       <=> Collides(lastResult.draft, lastResult.id, lastResult.before))

\* C4: exclude-self on update. An update of booking B is not refused with
\* SlotConflict when B itself is the only booking that owns one of the
\* proposed slots.
ExcludeSelfAvailable ==
  ( /\ lastResult.op = "update"
    /\ lastResult.id \in DOMAIN lastResult.before
    /\ SlotsOf(lastResult.before[lastResult.id])
         \cap DraftSlots(lastResult.draft) # {}
    /\ ~Collides(lastResult.draft, lastResult.id, lastResult.before) )
  => lastResult.outcome # "SlotConflict"

\* C5: codec round trip. The booking that create returns, decoded from the
\* row it wrote, has the calendar dates and the start times of the draft.
CreateRoundTrip ==
  (lastResult.op = "create" /\ lastResult.outcome = "ok")
    => lastResult.returned[1].dates = lastResult.draft.dates

\* C6: legacy compatibility on read. Every stored token, date-only, with the
\* +05:30 offset or without it, is decoded by fetch to the calendar date and
\* the HH:mm written in it.
LegacyDecode ==
  (lastResult.op = "fetch" /\ lastResult.outcome = "ok") =>
    \A k \in DOMAIN lastResult.returned :
      LET b == lastResult.returned[k]
          row == lastResult.before[b.id]
      IN \A i \in DOMAIN row.dates :
           b.dates[i] = LocalDate(row.dates[i].day, row.dates[i].time)

\* C7: only canonical tokens are written. Every token that create or update
\* put in the table has the form YYYY-MM-DDTHH:mm:ss+05:30.
OnlyCanonicalWritten ==
  \A id \in DOMAIN store : \A i \in DOMAIN store[id].dates :
    store[id].dates[i].shape = CanonicalShape

\* C8: delete cascades to reminders. After delete(id) succeeded the
\* notification store holds no reminder whose bookingId is id.
DeleteCascadesReminders ==
  (lastResult.op = "delete" /\ lastResult.outcome = "ok")
    => ~(\E n \in notifications : n.bookingId = lastResult.id)

\* C9: delete(id) of an id that no booking has fails with NotFound and
\* leaves the table as it was.
DeleteMissingNotFound ==
  (lastResult.op = "delete" /\ lastResult.id \notin DOMAIN lastResult.before)
    => (lastResult.outcome = "NotFound" /\ store = lastResult.before)

\* C10: update(id, draft) of an id that no booking has fails with NotFound
\* and creates no row; an accepted update leaves the set of ids as it was,
\* gives the booking id the slots, name, phone, price and notes of the draft
\* and leaves every other booking unchanged.
UpdateContract ==
  lastResult.op = "update" =>
    /\ lastResult.id \notin DOMAIN lastResult.before
         => (lastResult.outcome = "NotFound" /\ store = lastResult.before)
    /\ lastResult.outcome = "ok" =>
         /\ DOMAIN store = DOMAIN lastResult.before
         /\ lastResult.id \in DOMAIN store
         /\ LET row == store[lastResult.id]
            IN /\ Len(row.dates) = Len(lastResult.draft.dates)
               /\ \A i \in DOMAIN row.dates :
                    /\ row.dates[i].day = lastResult.draft.dates[i].day
                    /\ row.dates[i].time = lastResult.draft.dates[i].time
               /\ row.full_name = lastResult.draft.fullName
               /\ row.phone = lastResult.draft.phoneNumber
               /\ row.price = lastResult.draft.price
               /\ row.details = lastResult.draft.otherDetails
         /\ \A o \in DOMAIN store \ {lastResult.id} :
              store[o] = lastResult.before[o]

\* C11: a store failure is propagated and never retried. Every operation
\* awaits each kind of store call at most once; a call that came back with an
\* error is the last call of its operation, the operation throws, and the
\* table is the one the operation found (so a failed availability read is
\* followed by no insert and no update).
StoreFailurePropagated ==
  LET failedAt == {i \in DOMAIN storeCalls : storeCalls[i].failed}
  IN /\ \A i \in DOMAIN storeCalls : \A j \in DOMAIN storeCalls :
          i # j => storeCalls[i].call # storeCalls[j].call
     /\ failedAt # {} =>
          /\ failedAt = {Len(storeCalls)}
          /\ lastResult.outcome \in {"StoreUnavailable", "NotFound"}
          /\ lastResult.returned = <<>>
          /\ store = lastResult.before
     /\ lastResult.outcome = "StoreUnavailable" => failedAt # {}

\* the availability read of a create failed while the table held a booking,
\* or the write of an update of an existing booking failed
ReadOrWriteFailed ==
  /\ DOMAIN store # {}
  /\ lastResult.outcome = "StoreUnavailable"
  /\ \/ lastResult.op = "create" /\ storeCalls = <<StoreCall("select", TRUE)>>
     \/ lastResult.op = "update" /\ lastResult.id \in DOMAIN store
          /\ Len(storeCalls) = 2 /\ storeCalls[2].failed

\* C12: contiguity at add time. A click on a day that is neither booked nor
\* selected adds the day when the selection with the day has every
\* neighbouring pair one calendar day apart, and then the selection is that
\* set in ascending order; otherwise the selection stays exactly as it was.
ContiguityAtAdd ==
  (ClickedUnbooked /\ lastEvent.date.day \notin DaysOf(lastEvent.selectedDates))
  => LET candidate == DaysOf(lastEvent.selectedDates) \cup {lastEvent.date.day}
     IN IF Contiguous(candidate)
        THEN IsSortedListOf(selectedDates, candidate)
        ELSE selectedDates = lastEvent.selectedDates

\* C13: the selection is contiguous in every reachable state.
SelectionContiguous == Contiguous(DaysOf(selectedDates))

\* C14: toggle. A click on an unbooked day that is selected removes exactly
\* that day and keeps the others in place; and since a click on an unbooked
\* day adds it to the empty selection, two clicks in a row on the same day
\* starting from the empty selection end with the empty selection.
ToggleRemovesExactly ==
  /\ (ClickedUnbooked /\ lastEvent.date.day \in DaysOf(lastEvent.selectedDates))
     => LET prev == lastEvent.selectedDates
            kept == {i \in DOMAIN prev : prev[i].day # lastEvent.date.day}
        IN /\ Len(selectedDates) = Cardinality(kept)
           /\ \A i \in kept :
                selectedDates[Cardinality({k \in kept : k <= i})] = prev[i]
  /\ (ClickedUnbooked /\ lastEvent.selectedDates = <<>>)
     => selectedDates = <<lastEvent.date>>
  /\ (ClickedUnbooked /\ lastEvent.selectedDates = <<lastEvent.date>>)
     => selectedDates = <<>>

\* one of at least two selected days was clicked off
ToggledOffOneOfSeveral ==
  /\ ClickedUnbooked
  /\ lastEvent.date.day \in DaysOf(lastEvent.selectedDates)
  /\ Len(lastEvent.selectedDates) >= 2
  /\ Len(selectedDates) = Len(lastEvent.selectedDates) - 1

\* C15: a click on a day that belongs to a booking of the current booking set
\* leaves the selection as it was and opens the viewer for that day: the
\* details of the booking, or the dialog of the bookings of the date.
BookedClickOpensViewer ==
  (Clicked /\ lastEvent.date.day \in BookedDays(lastEvent.bookings))
  => /\ selectedDates = lastEvent.selectedDates
     /\ \/ /\ showBookingDetails
           /\ lastEvent.date.day \in DaysOf(selectedBooking.dates)
        \/ /\ showDateBookingsDialog
           /\ selectedDateForDialog = lastEvent.date

\* a booked day was clicked while another day was selected
BookedClickedWhileSelecting ==
  /\ Clicked
  /\ lastEvent.date.day \in BookedDays(lastEvent.bookings)
  /\ selectedDates # <<>>
  /\ lastEvent.date.day \notin DaysOf(selectedDates)

\* C16: a submit whose create or update was rejected, with SlotConflict or by
\* a store failure, leaves the page as it was: the selected dates, the
\* booking being edited and the list of bookings are those before the submit.
RejectedSubmitKeepsClientState ==
  ( /\ lastEvent.handler = "handleBookingSubmit"
    /\ lastResult.outcome \in {"SlotConflict", "StoreUnavailable"} )
  => /\ selectedDates = lastEvent.selectedDates
     /\ editingBooking = lastEvent.editingBooking
     /\ bookings = lastEvent.bookings

\* the reminders of the booking of the last scheduling call, after the call
\* and after the same call made once more without forceReschedule
ScheduledOnce ==
  {n \in lastSchedule.after : n.bookingId = lastSchedule.booking.id}

ScheduledTwice ==
  scheduleBookingNotifications(lastSchedule.after, lastSchedule.booking, FALSE,
                               lastSchedule.permission, lastSchedule.now)

\* the reminders of the set for the i-th date slot of the booking
RemindersOfSlot(reminders, i) ==
  {n \in reminders : n.bookedDate = getTime(lastSchedule.booking.dates[i])}

\* C17, as claimed: two calls of the scheduling operation for one booking
\* without forceReschedule (permission granted) leave the set the first call
\* left, and that set holds exactly one reminder for each date slot of the
\* booking.
SchedulingTwiceOnePerSlot ==
  ( /\ lastSchedule.booking # NoBooking
    /\ ~lastSchedule.forceReschedule
    /\ lastSchedule.permission = "granted" )
  => /\ ScheduledTwice = lastSchedule.after
     /\ Cardinality(ScheduledOnce) = Len(lastSchedule.booking.dates)
     /\ \A i \in DOMAIN lastSchedule.booking.dates :
          Cardinality(RemindersOfSlot(ScheduledOnce, i)) = 1

\* C17, amended: the second call changes nothing; and when the first call
\* found no reminder of the booking, the set holds exactly one reminder for
\* each date slot whose reminder time (15 days before) was still ahead and
\* permission was granted, and none for any other slot.
SchedulingIdempotent ==
  (lastSchedule.booking # NoBooking /\ ~lastSchedule.forceReschedule)
  => /\ ScheduledTwice = lastSchedule.after
     /\ ~lastSchedule.alreadyScheduled =>
          LET dates == lastSchedule.booking.dates
              ahead == {i \in DOMAIN dates :
                          /\ lastSchedule.permission = "granted"
                          /\ dates[i].valid
                          /\ getTime(dates[i]) - 2 * NotificationLeadDays
                               > lastSchedule.now}
          IN /\ Cardinality(ScheduledOnce) = Cardinality(ahead)
             /\ \A i \in DOMAIN dates :
                  Cardinality(RemindersOfSlot(ScheduledOnce, i))
                    = IF i \in ahead THEN 1 ELSE 0

\* a booking of two dates got its two reminders from a call without
\* forceReschedule that found none
TwoSlotsScheduledOnce ==
  /\ ~lastSchedule.forceReschedule
  /\ ~lastSchedule.alreadyScheduled
  /\ Len(lastSchedule.booking.dates) = 2
  /\ Cardinality(ScheduledOnce) = 2

\* the ids a step hands to showNotification, in order
ShownInStep ==
  SubSeq(shownNotifications', Len(shownNotifications) + 1, Len(shownNotifications'))

TimesShown(id) == Cardinality({k \in DOMAIN ShownInStep : ShownInStep[k] = id})

\* a step that is one run of a due check
DueCheckRun ==
  CheckAndShowDueNotifications \/ \E fault \in {"none", "show"} : CheckDueNotifications(fault)

SweptAsClaimed ==
  \A n \in notifications :
    /\ ReminderDue(n, now) => TimesShown(n.id) = 1 /\ n \notin notifications'
    /\ BookedDatePassed(n, now) => TimesShown(n.id) = 0 /\ n \notin notifications'
    /\ ReminderAhead(n, now) => TimesShown(n.id) = 0 /\ n \in notifications'

\* C18, as claimed: after one run of the due check every pending reminder that
\* was due has been shown once and removed, every one whose booked date had
\* passed has been removed unshown, every one still ahead is left unshown.
DueCheckSweep == [][DueCheckRun => SweptAsClaimed]_vars

\* C18, amended: a run that can show notifications (permission granted, and in
\* the service worker showNotification not failing) sweeps as claimed; any
\* other run shows nothing, the page's leaving the store as it found it and
\* the service worker's removing just the reminders whose booked date passed.
DueCheckSweepWhenDeliverable ==
  [][DueCheckRun =>
       IF lastSweep'.delivers
       THEN SweptAsClaimed
       ELSE /\ ShownInStep = <<>>
            /\ notifications' =
                 IF lastSweep'.runner = "page" THEN notifications
                 ELSE {n \in notifications : ~BookedDatePassed(n, now)}]_vars

\* a deliverable run has found a due reminder next to one whose booked date
\* had passed
SweptDueAndPassed ==
  /\ lastSweep.runner # "none"
  /\ lastSweep.delivers
  /\ {"due", "passed"} \subseteq lastSweep.found

\* the record of skipped that stands for a stored reminder
AsSkipped(n) ==
  [id |-> n.id, notificationDate |-> n.notificationDate, bookedDate |-> n.bookedDate]

\* C19: a reminder whose reminder time was at or before the clock when it was
\* scheduled is not in the reminder store, and no step of a due check shows it.
SkippedNeverShown ==
  [][/\ \A n \in notifications' : AsSkipped(n) \notin skipped'
     /\ \A k \in DOMAIN ShownInStep :
          \E n \in notifications : n.id = ShownInStep[k] /\ AsSkipped(n) \notin skipped]_vars

\* a run that can show notifications came when a skipped reminder would have
\* been due
SweptOverSkipped ==
  /\ lastSweep.runner # "none"
  /\ lastSweep.delivers
  /\ "skipped" \in lastSweep.found

\* texts that are not a 10-digit mobile number
BadPhoneNumbers == {"987654321", "98765432101", "5876543210", "98765x3210", ""}

\* C20: a draft with a date that has no time, with a phone number that is
\* not a 10-digit mobile number, or with a price that is not a positive
\* decimal of at most two fractional digits never reaches the store: every
\* draft for which an availability read, an insert or an update was issued
\* has a time for each date, a 10-digit mobile number and a positive price
\* that is a whole number of hundredths.
InvalidFormNeverReachesStore ==
  lastResult.op \in {"create", "update"}
  => /\ \A i \in DOMAIN lastResult.draft.dates : lastResult.draft.dates[i].time \in Times
     /\ lastResult.draft.phoneNumber \notin BadPhoneNumbers
     /\ lastResult.draft.price > 0
     /\ lastResult.draft.price % 10 = 0

\* well-typed fields were submitted for a date without a start time, and the
\* form kept them
SubmittedWithoutTime ==
  /\ lastEvent.handler = "handleFormSubmit"
  /\ alertMessage = "Please provide start time for all selected dates"
  /\ showBookingForm

\* each calendar date at most once, in ascending order
DistinctAscending(dates) ==
  \A i, j \in DOMAIN dates : i < j => dates[i].day < dates[j].day

\* C21: the selection holds each calendar date at most once and is sorted
\* ascending, and every draft handed to create or update has pairwise
\* distinct calendar dates.
SelectionDatesDistinct ==
  /\ DistinctAscending(selectedDates)
  /\ IsWrite =>
       \A i, j \in DOMAIN lastResult.draft.dates :
         i # j => lastResult.draft.dates[i].day # lastResult.draft.dates[j].day

\* the date-slot calendar handed a draft of several dates to the store
SeveralDatesHandedOn ==
  /\ IsWrite
  /\ Len(lastResult.draft.dates) >= 2
  /\ component = "dateSlots"

\* the bookings another client wrote between the read and the write of
\* client c, onto a slot of the draft c is writing
LandedBetween(c) ==
  {i \in DOMAIN store :
     /\ i # inFlight[c].id
     /\ i \notin DOMAIN inFlight[c].before \/ inFlight[c].before[i] # store[i]
     /\ SlotsOf(store[i]) \cap DraftSlots(inFlight[c].draft) # {}}

\* C22: when another client's write for the same slot landed between the
\* availability read and the write of a create or update, the call is not
\* rejected, and afterwards two different bookings own the same slot.
CheckThenWriteRace ==
  [][\A c \in Clients :
       ( /\ inFlight[c].phase = "read" /\ inFlight'[c].phase = "done"
         /\ ~inFlight[c].isBooked
         /\ inFlight[c].op = "update" => inFlight[c].id \in DOMAIN store
         /\ LandedBetween(c) # {} )
       => /\ inFlight'[c].outcome = "ok"
          /\ \A i \in LandedBetween(c) :
               /\ lastResult'.id # i
               /\ SlotsOf(store'[i]) \cap SlotsOf(store'[lastResult'.id]) # {}]_vars

\* both clients had their call accepted and two bookings own one slot
BothAcceptedOneSlot ==
  /\ \A c \in Clients : inFlight[c].phase = "done" /\ inFlight[c].outcome = "ok"
  /\ \E a \in DOMAIN store : \E b \in DOMAIN store :
       a # b /\ SlotsOf(store[a]) \cap SlotsOf(store[b]) # {}

\* C23: normalization before compare. A create or update whose draft has a
\* slot with the calendar date and the time written in a token of another
\* booking is refused with SlotConflict, whatever the form of that token:
\* date-only, offset-less or canonical.
StoredTokensNormalized ==
  (IsWrite /\ Collides(lastResult.draft, lastResult.id, lastResult.before))
    => lastResult.outcome = "SlotConflict"

\* C24: after the booking form was closed, and after a submit reached
\* handleBookingSubmit (accepted by the store or not), the selection is empty,
\* no booking is being edited and the form is hidden.
ResetOnCloseOrSubmit ==
  lastEvent.handler \in {"closeBookingForm", "handleBookingSubmit"}
    => /\ selectedDates = <<>>
       /\ editingBooking = NoBooking
       /\ ~showBookingForm

\* a submit that found dates selected and a booking being edited
EditSubmitted ==
  /\ lastEvent.handler = "handleBookingSubmit"
  /\ lastEvent.selectedDates # <<>>
  /\ lastEvent.editingBooking # NoBooking

\* the reminders stored for a booking id
RemindersOfBooking(notifs, bookingId) == {n \in notifs : n.bookingId = bookingId}

\* C25, as claimed: after a call of the scheduling operation with
\* forceReschedule the reminders of the booking are exactly those of the date
\* slots the booking has now, one for each, and none of a slot it had before.
ForcedRescheduleReplaces ==
  (lastSchedule.booking # NoBooking /\ lastSchedule.forceReschedule)
  => RemindersOfBooking(lastSchedule.after, lastSchedule.booking.id)
       = {ScheduledNotification(lastSchedule.booking, lastSchedule.booking.dates[i]) :
            i \in DOMAIN lastSchedule.booking.dates}

\* C25, amended: when permission is granted, after a call of the scheduling
\* operation with forceReschedule the reminders of the booking are exactly
\* those of its current date slots whose reminder time (15 days before) was
\* still ahead, one for each, and none of a slot it had before.
ForcedRescheduleReplacesWhenGranted ==
  ( /\ lastSchedule.booking # NoBooking
    /\ lastSchedule.forceReschedule
    /\ lastSchedule.permission = "granted" )
  => RemindersOfBooking(lastSchedule.after, lastSchedule.booking.id)
       = {ScheduledNotification(lastSchedule.booking, lastSchedule.booking.dates[i]) :
            i \in {j \in DOMAIN lastSchedule.booking.dates :
                     /\ lastSchedule.booking.dates[j].valid
                     /\ getTime(calculateNotificationDate(lastSchedule.booking.dates[j]))
                          > lastSchedule.now}}

\* a booking that had reminders was moved off one of its dates and then
\* scheduled again with forceReschedule, permission granted
RescheduledAfterEdit ==
  /\ lastSchedule.booking # NoBooking
  /\ lastSchedule.forceReschedule
  /\ lastSchedule.permission = "granted"
  /\ lastSchedule.alreadyScheduled
  /\ lastResult.op = "update" /\ lastResult.outcome = "ok"
  /\ lastResult.id = lastSchedule.booking.id
  /\ lastResult.id \in DOMAIN lastResult.before
  /\ \E slot \in SlotsOf(lastResult.before[lastResult.id]) :
       slot \notin DraftSlots(lastSchedule.booking)
  /\ RemindersOfBooking(lastSchedule.after, lastSchedule.booking.id) # {}

\* C26: permission gate. A step that begins and ends without the permission
\* granted stores no reminder and shows no notification, be it a scheduling
\* of a booking, a due-check of the page or one of the service worker.
PermissionGate ==
  [][(permission # "granted" /\ permission' # "granted")
       => /\ notifications' \subseteq notifications
          /\ shownNotifications' = shownNotifications]_vars

\* without the permission a booking was scheduled and a due-check ran over a
\* reminder that was due
GateHeldBack ==
  /\ permission # "granted"
  /\ lastSchedule.booking # NoBooking /\ lastSchedule.permission # "granted"
  /\ lastSweep.runner # "none" /\ ~lastSweep.delivers
  /\ "due" \in lastSweep.found

\* C27: every reminder of the store has a reminder time 15 days before its
\* booked date, to the instant, and a reminder that a step stores has its
\* reminder time strictly after the clock of that step.
ReminderTimeFifteenDaysAhead ==
  [][\A n \in notifications' :
       /\ n.notificationDate = n.bookedDate - 2 * NotificationLeadDays
       /\ n \notin notifications => n.notificationDate > now]_vars

\* a booking of two dates was scheduled late: the reminder of the later date
\* was stored, the one of the earlier date was not
StoredOneOfTwo ==
  /\ lastSchedule.booking # NoBooking
  /\ lastSchedule.now > 0
  /\ Len(lastSchedule.booking.dates) = 2
  /\ ~lastSchedule.alreadyScheduled
  /\ Cardinality(RemindersOfBooking(lastSchedule.after, lastSchedule.booking.id)) = 1

\* how often an id was handed to showNotification since the start
ShownSoFar(id) ==
  Cardinality({k \in DOMAIN shownNotifications : shownNotifications[k] = id})

\* C28: at most one delivery. No reminder id has been handed to
\* showNotification more than once, whatever the order in which the passes of
\* the page's and the service worker's due-checks ran.
ShownAtMostOnce ==
  \A k \in DOMAIN shownNotifications : ShownSoFar(shownNotifications[k]) <= 1

\* the keys a reminder can have: booking id and booked day
ReminderIds == {<<id, day>> : id \in Ids, day \in Days}

\* the store holds a reminder of the key
Pending(id) == \E n \in notifications : n.id = id

\* C29: every reminder put in the store eventually leaves it, when the
\* service worker's due-check keeps running, time passes and showing a
\* notification succeeds again and again.
ReminderEventuallyLeaves ==
  \A id \in ReminderIds : Pending(id) ~> ~Pending(id)

\* a reminder was shown and the store has been emptied
ShownAndGone ==
  /\ shownNotifications # <<>>
  /\ notifications = {}
  /\ lastSweep.runner = "worker"

\* the booking of the reminder is in the table
HasBooking(n) == n.bookingId \in DOMAIN store

\* the booking of the reminder has a date on the reminder's booked day
OnBookedDate(n) ==
  \E i \in DOMAIN store[n.bookingId].dates :
    getTime(parseStoredDate(store[n.bookingId].dates[i])) = n.bookedDate

\* C30: no orphan or stale reminders. Every reminder of the store belongs to
\* a booking that the table still holds and to a calendar date that this
\* booking has now.
NoOrphanOrStaleReminder ==
  \A n \in notifications : HasBooking(n) /\ OnBookedDate(n)

====
